---- MODULE Spec2Model ----
(***************************************************************************)
(* Enrichment matching engine of the Doctor Who library:                   *)
(*   TardisWikiService  (infrastructure/external/tardis_wiki_service.py)   *)
(*   EnrichmentService  (application/services/enrichment_service.py)       *)
(*   LibraryItem        (domain/entities/library_item.py)                  *)
(*                                                                         *)
(* Strings are TLA+ strings (Len, \o and SubSeq act on their characters).  *)
(* Confidence scores are IEEE-754 doubles in the code; here a score is an  *)
(* integer number of 1/10000, and FAdd reproduces the rounding of the      *)
(* double additions the scorer performs (0.6 + 0.3 = 0.8999999999999999    *)
(* is 8999, 0.7 + 0.1 = 0.7999999999999999 is 7999, ...).                  *)
(***************************************************************************)
EXTENDS Integers, Sequences, FiniteSets, TLC

\* ------------------------------------------------------------------ bounds

\* Number of catalogue records in the store.
NumItems == 2

\* Number of injected failures (network errors, database errors, raising
\* callbacks) over one behaviour.
MaxFaults == 2

\* ------------------------------------------------------- program constants

\* WikiSettings.confidence_threshold, 0.7
ConfidenceThreshold == 7000

\* the early-exit constant 0.8 of _search_for_item_internal
EarlyExit == 8000

\* _search_wiki(query, limit=3)
SearchLimit == 3

\* queries[:12]
MaxQueries == 12

\* Python's None
None == "<None>"

BaseUrl == "https://tardis.fandom.com/wiki/"

\* ------------------------------------------------------------ string helpers

\* A min that returns its first argument
MinIsFirst(a, b) == IF a < b THEN a ELSE a

Min(a, b) == IF a < b THEN a ELSE b

\* Python: sub in s
Contains(sub, s) ==
    \E i \in 1..(Len(s) - Len(sub) + 1) : SubSeq(s, i, i + Len(sub) - 1) = sub

UpperChars == "ABCDEFGHIJKLMNOPQRSTUVWXYZ"
LowerChars == "abcdefghijklmnopqrstuvwxyz"

LowerChar(c) ==
    IF \E i \in 1..Len(UpperChars) : SubSeq(UpperChars, i, i) = c
    THEN LET i == CHOOSE j \in 1..Len(UpperChars) : SubSeq(UpperChars, j, j) = c
         IN  SubSeq(LowerChars, i, i)
    ELSE c

\* Python: s.lower()
RECURSIVE Lower(_)
Lower(s) ==
    IF s = "" THEN ""
    ELSE LowerChar(SubSeq(s, 1, 1)) \o Lower(SubSeq(s, 2, Len(s)))

\* Python: s.split()
RECURSIVE SplitFrom(_, _, _)
SplitFrom(s, i, cur) ==
    IF i > Len(s)
    THEN IF cur = "" THEN <<>> ELSE <<cur>>
    ELSE LET c == SubSeq(s, i, i)
         IN  IF c = " "
             THEN (IF cur = "" THEN <<>> ELSE <<cur>>) \o SplitFrom(s, i + 1, "")
             ELSE SplitFrom(s, i + 1, cur \o c)

Split(s) == SplitFrom(s, 1, "")

\* urllib.parse.quote(title.replace(" ", "_")) on one character
QuoteChar(c) ==
    CASE c = " "  -> "_"
      [] c = "("  -> "%28"
      [] c = ")"  -> "%29"
      [] c = "\"" -> "%22"
      [] c = "'"  -> "%27"
      [] OTHER    -> c

RECURSIVE QuoteTitle(_)
QuoteTitle(s) ==
    IF s = "" THEN ""
    ELSE QuoteChar(SubSeq(s, 1, 1)) \o QuoteTitle(SubSeq(s, 2, Len(s)))

\* urljoin(str(self.config.base_url), quote(title.replace(" ", "_")))
PageUrl(title) == BaseUrl \o QuoteTitle(title)

\* IEEE-754 double addition score + w, on the sums the scorer can form
FAdd(score, w) ==
    CASE score = 2000  /\ w = 1000 -> 3001
      [] score = 4000  /\ w = 2000 -> 6001
      [] score = 6000  /\ w = 3000 -> 8999
      [] score = 6001  /\ w = 1000 -> 7001
      [] score = 7000  /\ w = 1000 -> 7999
      [] score = 7000  /\ w = 2000 -> 8999
      [] score = 8999  /\ w = 1000 -> 9999
      [] score = 8999  /\ w = 2000 -> 10999
      [] score = 8999  /\ w = 3000 -> 12000
      [] score = 10999 /\ w = 1000 -> 12000
      [] OTHER -> score + w

\* ------------------------------------------------------------ the catalogue

Ids == 1..NumItems

\* Catalogue fields of the records (written at import, never changed later):
\* title, story_title, serial_title, content_type.
Catalog(id) ==
    CASE id = 1 -> [title |-> "Rose", story_title |-> None,
                    serial_title |-> None, content_type |-> "BBC Television"]
      [] id = 2 -> [title |-> "Part One", story_title |-> "The Ark",
                    serial_title |-> "The Ark", content_type |-> None]
      [] OTHER  -> [title |-> "Dalek", story_title |-> "Dalek",
                    serial_title |-> None, content_type |-> "Documentary"]

AudioTypes ==
    {"BBC Audio", "BBC Audio (Doom's Day)", "BBC Audio / Big Finish Productions",
     "BBC Radio 4", "Big Finish Productions",
     "Big Finish Productions (Bernice Summerfield)",
     "Big Finish Productions (Dark Gallifrey)",
     "Big Finish Productions (Donna Noble: Kidnapped!)",
     "Big Finish Productions (Doom's Day)",
     "Big Finish Productions (Jago and Litefoot)",
     "Big Finish Productions (Jenny)", "Big Finish Productions (Master!)",
     "Big Finish Productions (Susan's War)",
     "Big Finish Productions (Tales from New Earth)",
     "Big Finish Productions (The Diary of River Song)",
     "Big Finish Productions (The Lives of Captain Jack)",
     "Big Finish Productions (The Paternoster Gang)",
     "Big Finish Productions (The Robots)",
     "Big Finish Productions (The War Doctor)",
     "Big Finish Productions (The War Master)"}

TvTypes ==
    {"BBC Television", "BBC Television (Class)",
     "BBC Television (The Sarah Jane Adventures)", "BBC Television / Starz",
     "Disney Television", "TV", "BBC Minisode", "BBC Minisode (Idents)",
     "BBC Minisode (Trailer)", "BBC Television Minisode"}

ComicTypes ==
    {"Doctor Who Magazine Comic", "Doctor Who Magazine Comic Strip",
     "Titan Comics", "BBC Comic Creator"}

BookTypes == {"BBC Books", "The Missing Adventures"}

WebcastTypes == {"BBCi Webcast", "Big Finish Webcast", "BBC Online"}

\* ContentType.get_wiki_suffix
GetWikiSuffix(ct) ==
    CASE ct \in AudioTypes         -> "audio story"
      [] ct \in TvTypes            -> "TV story"
      [] ct \in ComicTypes         -> "comic story"
      [] ct \in BookTypes          -> "novel"
      [] ct \in WebcastTypes       -> "webcast"
      [] ct = "BBC Adventure Games" -> "video game"
      [] ct = "Documentary"        -> "documentary"
      [] OTHER                     -> "story"

\* Python truthiness of an optional string
Truthy(s) == s # None /\ s # ""

\* LibraryItem.get_search_titles
GetSearchTitles(rec) ==
    (IF Truthy(rec.story_title) /\ rec.story_title # rec.title
     THEN <<rec.story_title>> ELSE <<>>)
    \o
    (IF Truthy(rec.serial_title) /\ rec.serial_title # rec.title
        /\ rec.serial_title # rec.story_title
     THEN <<rec.serial_title>> ELSE <<>>)
    \o
    (IF Truthy(rec.title) THEN <<rec.title>> ELSE <<>>)

CommonDisambiguations ==
    <<"TV story", "audio story", "comic story", "novel", "webcast",
      "home video", "short story">>

InSeq(x, seq) == \E i \in 1..Len(seq) : seq[i] = x

\* the loop "for dab_term in common_disambiguations" from position k on
RECURSIVE AddDisambiguations(_, _, _)
AddDisambiguations(queries, title, k) ==
    IF k > Len(CommonDisambiguations) THEN queries
    ELSE LET search_query == title \o " (" \o CommonDisambiguations[k] \o ")"
         IN  AddDisambiguations(
                 IF InSeq(search_query, queries) THEN queries
                 ELSE Append(queries, search_query),
                 title, k + 1)

\* the body of "for title in search_titles" from position t on
RECURSIVE QueriesForTitles(_, _, _, _)
QueriesForTitles(queries, titles, t, ct) ==
    IF t > Len(titles) THEN queries
    ELSE LET title  == titles[t]
             first  == IF Truthy(ct)
                       THEN Append(queries, title \o " (" \o GetWikiSuffix(ct) \o ")")
                       ELSE queries
             dabbed == AddDisambiguations(first, title, 1)
         IN  QueriesForTitles(Append(dabbed, title), titles, t + 1, ct)

\* A query generator that leaves out the broad quoted query
GenerateSearchQueriesNoBroad(rec) ==
    LET queries == QueriesForTitles(<<>>, GetSearchTitles(rec), 1, rec.content_type)
    IN  SubSeq(queries, 1, Min(Len(queries), MaxQueries))

\* TardisWikiService._generate_search_queries
GenerateSearchQueries(rec) ==
    LET search_titles == GetSearchTitles(rec)
        queries == QueriesForTitles(<<>>, search_titles, 1, rec.content_type)
        all == IF search_titles # <<>>
               THEN Append(queries, "\"" \o search_titles[1] \o "\" Doctor Who")
               ELSE queries
    IN  SubSeq(all, 1, Min(Len(all), MaxQueries))

\* ---------------------------------------------------------------- the scorer

DoctorWhoTerms ==
    {"doctor", "tardis", "gallifrey", "dalek", "cybermen", "time lord", "bbc"}

\* TardisWikiService._calculate_confidence_score; page_content is the dict
\* built by _get_page_content.
CalculateConfidenceScore(title, page_content) ==
    LET page_title == Lower(page_content.title)
        item_title == Lower(title)
        words      == Split(item_title)
        s1 == IF item_title # "" /\ page_title # ""
              THEN IF Contains(item_title, page_title) \/ Contains(page_title, item_title)
                   THEN FAdd(0, 6000)
                   ELSE IF \E i \in 1..Len(words) :
                               Len(words[i]) > 2 /\ Contains(words[i], page_title)
                        THEN FAdd(0, 4000)
                        ELSE 0
              ELSE 0
        content_lower == Lower(page_content.content \o " " \o page_content.summary)
        summary_lower == Lower(page_content.summary)
        s2 == IF Contains("tardis", Lower(page_content.url)) THEN FAdd(s1, 3000) ELSE s1
        s3 == IF \E term \in DoctorWhoTerms :
                     Contains(term, content_lower) \/ Contains(term, summary_lower)
              THEN FAdd(s2, 3000) ELSE s2
        s4 == IF page_content.categories # <<>> THEN FAdd(s3, 2000) ELSE s3
        s5 == IF page_content.summary # "" \/ page_content.content # ""
              THEN FAdd(s4, 1000) ELSE s4
    IN  Min(s5, 10000)

\* ------------------------------------------------------- the external wiki

\* The wiki is a fixed collection of pages and a search index; WikiWorlds are
\* the search indexes a behaviour may start with.  What varies from call to
\* call is only whether the HTTP request fails.
WikiWorlds == {"plain", "noimage", "missing", "low"}

\* Pages whose URL answers 404
MissingPages == {"Rose (unproduced)"}

PageSummary(page_title) ==
    CASE page_title = "Rose (TV story)"     -> "Rose was the first episode of series 1 of Doctor Who."
      [] page_title = "Rose (novelisation)" -> "Rose was a novelisation featuring the Ninth Doctor."
      [] page_title = "The Ark (TV story)"  -> "The Ark was the sixth serial of season 3 of Doctor Who."
      [] OTHER -> ""

PageCategories(page_title) ==
    CASE page_title = "Rose (TV story)"     -> <<"Series 1 (Doctor Who 2005) stories", "Stories set in London">>
      [] page_title = "Rose (novelisation)" -> <<"Target novelisations">>
      [] page_title = "The Ark (TV story)"  -> <<"Season 3 stories">>
      [] OTHER -> <<>>

PageImages(page_title) ==
    CASE page_title = "Rose (novelisation)" -> <<>>
      [] page_title = "Rose (TV story)"     -> <<"https://static.wikia.nocookie.net/tardis/Rose.jpg">>
      [] page_title = "The Ark (TV story)"  -> <<"https://static.wikia.nocookie.net/tardis/Ark.jpg">>
      [] OTHER -> <<"https://static.wikia.nocookie.net/tardis/Site-logo.png">>

\* TardisWikiService._get_page_content for a page the wiki serves: the content
\* dict.  "content" is initialised to "" and never filled in.
PageContent(page_title) ==
    [title      |-> page_title,
     url        |-> PageUrl(page_title),
     content    |-> "",
     summary    |-> PageSummary(page_title),
     categories |-> PageCategories(page_title),
     images     |-> PageImages(page_title)]

\* What the search API lists for a query, best hit first
SearchIndex(world, query) ==
    CASE world = "plain" /\ query = "Rose (TV story)"
            -> <<"Rose (TV story)", "Henrik's">>
      [] world = "plain" /\ query = "The Ark (TV story)"
            -> <<"The Ark (TV story)">>
      [] world = "noimage" /\ query = "Rose (TV story)"
            -> <<"Henrik's", "Rose (novelisation)", "Rose (TV story)">>
      [] world = "noimage" /\ query = "The Ark (TV story)"
            -> <<"Rose (novelisation)">>
      [] world = "missing" /\ query = "Rose (TV story)"
            -> <<"Rose (unproduced)", "Rose (TV story)">>
      [] world = "missing" /\ query = "Rose"
            -> <<"Rose (TV story)">>
      [] world = "missing" /\ query = "The Ark (novel)"
            -> <<"One Day">>
      [] world = "low" /\ query = "Rose (TV story)"
            -> <<"Henrik's">>
      [] world = "low" /\ query = "Rose (novel)"
            -> <<"One Day", "Henrik's">>
      [] world = "low" /\ query = "Part One (TV story)"
            -> <<"One Day", "The Ark (TV story)">>
      [] OTHER -> <<>>

\* TardisWikiService._search_wiki on a successful response: the result dicts
\* (title and url), at most limit of them (srlimit)
SearchWiki(world, query, limit) ==
    LET hits == SearchIndex(world, query)
    IN  [i \in 1..Min(Len(hits), limit) |-> [title |-> hits[i], url |-> PageUrl(hits[i])]]

\* ------------------------------------------------------------ the library item

Statuses == {"pending", "enriched", "failed", "skipped"}

\* A row of library_items as import leaves it (excel_converter: status
\* "pending", every enrichment column NULL, confidence at the column default)
ImportedRow ==
    [enrichment_status |-> "pending", enrichment_confidence |-> 0,
     enrichment_error |-> None, wiki_url |-> None, wiki_summary |-> None,
     wiki_image_url |-> None, wiki_search_term |-> None]

\* LibraryItem(...) as get_pending_items and enrich_single_item build it from a
\* row: the status is set to PENDING and the confidence to 0.0 whatever the row
\* holds; wiki_url and wiki_summary are copied; the other fields keep the
\* dataclass defaults.
LoadItem(id, row) ==
    [id |-> id, enrichment_status |-> "pending", enrichment_confidence |-> 0,
     enrichment_error |-> None, wiki_url |-> row.wiki_url,
     wiki_summary |-> row.wiki_summary, wiki_image_url |-> None,
     wiki_search_term |-> None]

\* LibraryItem.can_be_enriched
CanBeEnriched(item) == item.enrichment_status = "pending"

\* A mark_enriched that sets the status and the wiki fields but not the
\* confidence
MarkEnrichedKeepsConfidence(item, confidence, wiki_url, summary, search_term) ==
    [item EXCEPT !.enrichment_status = "enriched",
                 !.enrichment_error = None,
                 !.wiki_url = wiki_url,
                 !.wiki_summary = summary,
                 !.wiki_search_term = search_term]

\* LibraryItem.mark_enriched
MarkEnriched(item, confidence, wiki_url, summary, search_term) ==
    [item EXCEPT !.enrichment_status = "enriched",
                 !.enrichment_confidence = confidence,
                 !.enrichment_error = None,
                 !.wiki_url = wiki_url,
                 !.wiki_summary = summary,
                 !.wiki_search_term = search_term]

\* LibraryItem.mark_enrichment_failed
MarkEnrichmentFailed(item, error, search_term) ==
    [item EXCEPT !.enrichment_status = "failed",
                 !.enrichment_error = error,
                 !.wiki_search_term = IF Truthy(search_term) THEN search_term ELSE @]

\* LibraryItem.mark_enrichment_skipped
MarkEnrichmentSkipped(item, reason, search_term) ==
    [item EXCEPT !.enrichment_status = "skipped",
                 !.enrichment_error = reason,
                 !.wiki_search_term = IF Truthy(search_term) THEN search_term ELSE @]

\* item.get_search_titles()[0] if item.get_search_titles() else None
TopSearchTitle(id) ==
    LET titles == GetSearchTitles(Catalog(id))
    IN  IF titles # <<>> THEN titles[1] ELSE None

\* -------------------------------------------------------------- persistence

\* EnrichmentService.save_enriched_item: the UPDATE statement.  It writes the
\* status, confidence, wiki_url, wiki_summary, wiki_search_term and error
\* columns; wiki_image_url is not among them.
SaveEnrichedItem(row, item) ==
    [row EXCEPT !.enrichment_status = item.enrichment_status,
                !.enrichment_confidence = item.enrichment_confidence,
                !.wiki_url = item.wiki_url,
                !.wiki_summary = item.wiki_summary,
                !.wiki_search_term = item.wiki_search_term,
                !.enrichment_error = item.enrichment_error]

\* A reset that rewrites the status and the confidence only and leaves the
\* wiki columns and the error of the row as they are
ResetRowKeepsFields(row) ==
    [row EXCEPT !.enrichment_status = "pending",
                !.enrichment_confidence = 0]

\* The UPDATE of reset_enrichment_status / reset_single_item_enrichment on one
\* row, with the default status argument (PENDING), as every caller passes it
ResetRow(row) ==
    [row EXCEPT !.enrichment_status = "pending",
                !.enrichment_confidence = 0,
                !.enrichment_error = None,
                !.wiki_url = None,
                !.wiki_summary = None,
                !.wiki_image_url = None,
                !.wiki_search_term = None]

\* str(e) of the ServiceException save_enriched_item raises (the item id that
\* ends the message is left out)
SaveErrorMessage ==
    "EnrichmentService service error during save_enriched_item: Failed to save enriched item"

\* str(e) of an exception raised by the caller's callback
CallbackErrorMessage == "callback failed"

\* ------------------------------------------------------- the search loop
\* The locals of _search_for_item_internal:
\*   queries, qi (position of "for query in search_queries"),
\*   results, ci (position of "for result in search_results"),
\*   best_score, best_result,
\*   at: "search" (about to await _search_wiki), "fetch" (about to await
\*       _get_page_content) or "done" (the loop has ended).

\* "best_result = None": no WikiSearchResult
NoResult ==
    [title |-> None, url |-> None, summary |-> None, confidence |-> 0,
     search_term |-> None, image_url |-> None]

\* line 60-63: the locals before the first query
StartSearch(id) ==
    LET queries == GenerateSearchQueries(Catalog(id))
    IN  [queries |-> queries, qi |-> 1, results |-> <<>>, ci |-> 0,
         best_score |-> 0, best_result |-> NoResult,
         at |-> IF queries = <<>> THEN "done" ELSE "search"]

\* the next iteration of "for query in search_queries", or its end
NextQuery(s) ==
    IF s.qi < Len(s.queries)
    THEN [s EXCEPT !.qi = @ + 1, !.results = <<>>, !.ci = 0, !.at = "search"]
    ELSE [s EXCEPT !.results = <<>>, !.ci = 0, !.at = "done"]

\* line 92-93: after the result loop, "if best_score > 0.8: break"
AfterResults(s) ==
    IF s.best_score > EarlyExit
    THEN [s EXCEPT !.results = <<>>, !.ci = 0, !.at = "done"]
    ELSE NextQuery(s)

\* line 95-97: "except Exception: ... continue"
QueryFailed(s) == NextQuery(s)

\* A search failure that leaves the query loop instead of continuing it
OnSearchFailureBreaks(s) == [s EXCEPT !.results = <<>>, !.ci = 0, !.at = "done"]

\* line 67 raised (network or HTTP error, timeout)
OnSearchFailure(s) == QueryFailed(s)

\* line 67 returned search_results
OnSearchResults(s, search_results) ==
    IF search_results = <<>> THEN AfterResults(s)
    ELSE [s EXCEPT !.results = search_results, !.ci = 1, !.at = "fetch"]

\* line 70 raised: a network or HTTP error, which includes the 404 of a page
\* that does not exist (response.raise_for_status())
OnFetchFailure(s) == QueryFailed(s)

\* the next iteration of "for result in search_results", or its end
NextResult(s) ==
    IF s.ci < Len(s.results) THEN [s EXCEPT !.ci = @ + 1] ELSE AfterResults(s)

\* line 79-86: WikiSearchResult(...); page_content.get("images", [None])[0]
\* indexes the list the dict holds
NewBestResult(s, page_content, confidence) ==
    [title       |-> s.results[s.ci].title,
     url         |-> s.results[s.ci].url,
     summary     |-> page_content.summary,
     confidence  |-> confidence,
     search_term |-> s.queries[s.qi],
     image_url   |-> page_content.images[1]]

\* line 72-90: line 70 returned page_content (a non-empty dict)
OnPage(s, title, page_content) ==
    LET confidence == CalculateConfidenceScore(title, page_content)
    IN  IF confidence > s.best_score
        THEN IF page_content.images = <<>>
             THEN \* best_score is assigned, then [][0] raises IndexError
                  QueryFailed([s EXCEPT !.best_score = confidence])
             ELSE LET t == [s EXCEPT !.best_score = confidence,
                                     !.best_result = NewBestResult(s, page_content, confidence)]
                  IN  IF confidence > EarlyExit THEN AfterResults(t) ELSE NextResult(t)
        ELSE IF confidence > EarlyExit THEN AfterResults(s) ELSE NextResult(s)

\* line 99
SearchForItemResult(s) ==
    IF s.best_score >= ConfidenceThreshold THEN s.best_result ELSE NoResult

\* TardisWikiService.enrich_item, line 109-125, once search_for_item returned
EnrichItemResult(item, result) ==
    IF result # NoResult
    THEN LET m == MarkEnriched(item, result.confidence, result.url,
                               result.summary, result.search_term)
         IN  IF Truthy(result.image_url)
             THEN [m EXCEPT !.wiki_image_url = result.image_url]
             ELSE m
    ELSE MarkEnrichmentSkipped(item, "No suitable wiki page found",
                               TopSearchTitle(item.id))

\* ----------------------------------------------------------------- the state

VARIABLES
    db,      \* library_items: id -> row (the enrichment columns)
    wiki,    \* the search index of the external wiki
    faults,  \* failures injected so far
    pc,      \* worker -> where its coroutine stands
    item,    \* worker -> the LibraryItem object it is enriching
    srch,    \* worker -> the locals of _search_for_item_internal
    run,     \* the locals of the batch run (enrich_pending_items and variants)
    obs,     \* worker -> history of the current attempt (not program state)
    resp,    \* the HTTP response of the reset request the last step served
    trip,    \* history of an enrich, reset(id), enrich again sequence
    call,    \* a call of one of the pure functions: its input and its result
    gather   \* a call of TardisWikiService.enrich_items: its tasks

\* the state of the enrichment service and its store
service == <<db, wiki, faults, pc, item, srch, run, obs, resp, trip>>

\* the state the enrichment service does not touch
aside == <<call, gather>>

vars == <<db, wiki, faults, pc, item, srch, run, obs, resp, trip, call, gather>>

\* "run" is a call of enrich_pending_items (or its callback variant), "single"
\* a call of enrich_single_item.  One call is in progress at a time; the
\* resets (other requests on the same database file) come between any two
\* database statements of the call in progress.
Workers == {"run", "single"}

NoItem == LoadItem(0, ImportedRow)

NoSearch ==
    [queries |-> <<>>, qi |-> 0, results |-> <<>>, ci |-> 0,
     best_score |-> 0, best_result |-> NoResult, at |-> "done"]

\* History of one attempt:
\*   loaded_status  the persisted status of the row when the item was loaded
\*   called         a search or fetch request has been issued
\*   search_failed  a search request of this attempt failed
\*   skipped_rest   a fetch failed while later results of the query were waiting
\*   reset_since    the row was reset after the item was loaded
\*   top            the candidate that last raised best_score
\*   fetch_failed   a fetch of a page the wiki serves failed in this attempt
NoObs ==
    [loaded_status |-> None, called |-> FALSE, search_failed |-> FALSE,
     skipped_rest |-> FALSE, reset_since |-> FALSE, top |-> NoResult,
     fetch_failed |-> FALSE]

\* History of a round trip through enrich_single_item:
\*   phase "enriched"  enrich_single_item(id) saved the record as Enriched,
\*                     every request of the attempt having been answered
\*         "reset"     then reset_single_item_enrichment(id) reset the record
\*         "again"     then enrich_single_item(id) was called again
\*   confidence, wiki_url, wiki_search_term: what the first call saved
NoTrip ==
    [phase |-> None, id |-> 0, enrichment_confidence |-> 0, wiki_url |-> None,
     wiki_search_term |-> None]

\* an attempt counts as answered whatever happened to its requests
AnsweredOrNot(w) == obs[w].called \/ ~obs[w].called

\* every search and fetch request of the worker's attempt was answered by
\* the wiki (a 404 is an answer)
Answered(w) == ~obs[w].search_failed /\ ~obs[w].fetch_failed

NoRun ==
    [pending |-> <<>>, pos |-> 0, total_processed |-> 0, total_enriched |-> 0,
     total_failed |-> 0, total_skipped |-> 0, callback |-> FALSE,
     saves |-> <<>>, calls |-> <<>>]

\* The reset requests are served by the routes POST /api/enrichment/reset and
\* POST /api/enrichment/items/{item_id}/reset; resp is the response of the
\* request served by the last step (NoResponse when that step served none).
\*   raised: execute_update raised (the service raises ServiceException)
NoResponse ==
    [route |-> None, item_id |-> 0, raised |-> FALSE, status_code |-> 0,
     items_reset |-> 0, detail |-> None]

\* no pure function is being called
NoCall == [fn |-> None]

\* enrich_items is not being called
NoGather == [state |-> None]

\* the store after import, no call in progress, against the wiki w
ServiceStart(w) ==
    /\ db = [id \in Ids |-> ImportedRow]
    /\ wiki = w
    /\ faults = 0
    /\ pc = [x \in Workers |-> "idle"]
    /\ item = [x \in Workers |-> NoItem]
    /\ srch = [x \in Workers |-> NoSearch]
    /\ run = NoRun
    /\ obs = [x \in Workers |-> NoObs]
    /\ resp = NoResponse
    /\ trip = NoTrip

Init ==
    /\ \E w \in WikiWorlds : ServiceStart(w)
    /\ call = NoCall
    /\ gather = NoGather


\* ------------------------------------------------------------- enrich_item

\* enrich_item up to its first request: the guard (line 103), then
\* search_for_item up to the first await.  Yields <<pc, item, srch>>.
BeginEnrichItem(it) ==
    IF ~CanBeEnriched(it) THEN <<"save", it, NoSearch>>
    ELSE LET s == StartSearch(it.id)
         IN  IF s.at = "done"
             THEN <<"save", EnrichItemResult(it, SearchForItemResult(s)), s>>
             ELSE <<s.at, it, s>>

\* enrich_item from the return of a request to the next request, or to its
\* own return when the loop has ended.  Yields <<pc, item, srch>>.
ContinueEnrichItem(it, s) ==
    IF s.at = "done"
    THEN <<"save", EnrichItemResult(it, SearchForItemResult(s)), s>>
    ELSE <<s.at, it, s>>

Resume(w, step) ==
    /\ pc' = [pc EXCEPT ![w] = step[1]]
    /\ item' = [item EXCEPT ![w] = step[2]]
    /\ srch' = [srch EXCEPT ![w] = step[3]]

\* await self._search_wiki(query, limit=3) returns the result list
SearchReturns(w) ==
    /\ pc[w] = "search"
    /\ LET s == srch[w]
           search_results == SearchWiki(wiki, s.queries[s.qi], SearchLimit)
       IN  Resume(w, ContinueEnrichItem(item[w], OnSearchResults(s, search_results)))
    /\ obs' = [obs EXCEPT ![w].called = TRUE]
    /\ UNCHANGED <<db, wiki, faults, run>>
    /\ resp' = NoResponse
    /\ UNCHANGED trip
    /\ UNCHANGED aside

\* await self._search_wiki(query, limit=3) raises (HTTP error, timeout)
SearchRaises(w) ==
    /\ pc[w] = "search"
    /\ faults < MaxFaults
    /\ faults' = faults + 1
    /\ Resume(w, ContinueEnrichItem(item[w], OnSearchFailure(srch[w])))
    /\ obs' = [obs EXCEPT ![w].called = TRUE, ![w].search_failed = TRUE]
    /\ UNCHANGED <<db, wiki, run>>
    /\ resp' = NoResponse
    /\ UNCHANGED trip
    /\ UNCHANGED aside

\* the candidate the fetch is for
Candidate(w) == srch[w].results[srch[w].ci]

\* await self._get_page_content(result["title"]) returns the content dict
FetchReturns(w) ==
    /\ pc[w] = "fetch"
    /\ Candidate(w).title \notin MissingPages
    /\ LET s == srch[w]
           title == Catalog(item[w].id).title
           page_content == PageContent(Candidate(w).title)
           confidence == CalculateConfidenceScore(title, page_content)
       IN  /\ Resume(w, ContinueEnrichItem(item[w], OnPage(s, title, page_content)))
           /\ obs' = [obs EXCEPT
                        ![w].called = TRUE,
                        ![w].top = IF confidence > s.best_score
                                   THEN [title |-> Candidate(w).title,
                                         url |-> Candidate(w).url,
                                         summary |-> page_content.summary,
                                         confidence |-> confidence,
                                         search_term |-> s.queries[s.qi],
                                         image_url |-> IF page_content.images = <<>>
                                                       THEN None
                                                       ELSE page_content.images[1]]
                                   ELSE @]
    /\ UNCHANGED <<db, wiki, faults, run>>
    /\ resp' = NoResponse
    /\ UNCHANGED trip
    /\ UNCHANGED aside

\* await self._get_page_content(result["title"]) raises: the page does not
\* exist (404), or the request fails (HTTP error, timeout)
FetchRaises(w) ==
    /\ pc[w] = "fetch"
    /\ \/ Candidate(w).title \in MissingPages /\ faults' = faults
       \/ Candidate(w).title \notin MissingPages /\ faults < MaxFaults
            /\ faults' = faults + 1
    /\ Resume(w, ContinueEnrichItem(item[w], OnFetchFailure(srch[w])))
    /\ obs' = [obs EXCEPT ![w].called = TRUE,
                          ![w].skipped_rest = @ \/ srch[w].ci < Len(srch[w].results),
                          ![w].fetch_failed = @ \/ Candidate(w).title \notin MissingPages]
    /\ UNCHANGED <<db, wiki, run>>
    /\ resp' = NoResponse
    /\ UNCHANGED trip
    /\ UNCHANGED aside

\* No worker is inside the search loop.  The requests of the loop read and
\* write only the worker's own locals, so a step of the loop commutes with
\* every step of another worker and with every database statement: it is
\* enough to let a worker that has entered the loop run it to its end before
\* anything else moves.
Quiet == \A w \in Workers : pc[w] \notin {"search", "fetch"}

\* ------------------------------------------------------- enrich_single_item

\* enrich_single_item(item_id), line 281-330: SELECT the row by id (whatever
\* its status), build the LibraryItem, enter the wiki session and call
\* enrich_item
SingleStart(id) ==
    /\ Quiet
    /\ pc["single"] = "idle"
    /\ pc["run"] = "idle"
    /\ Resume("single", BeginEnrichItem(LoadItem(id, db[id])))
    /\ obs' = [obs EXCEPT !["single"] =
                  [NoObs EXCEPT !.loaded_status = db[id].enrichment_status]]
    /\ UNCHANGED <<db, wiki, faults, run>>
    /\ resp' = NoResponse
    /\ trip' = IF trip.phase = "reset" /\ trip.id = id
               THEN [trip EXCEPT !.phase = "again"] ELSE NoTrip
    /\ UNCHANGED aside

\* line 333-335: save_enriched_item succeeds, the item is returned
SingleSave ==
    /\ Quiet
    /\ pc["single"] = "save"
    /\ db' = [db EXCEPT ![item["single"].id] = SaveEnrichedItem(@, item["single"])]
    /\ pc' = [pc EXCEPT !["single"] = "returned"]
    /\ UNCHANGED <<wiki, faults, item, srch, run, obs>>
    /\ resp' = NoResponse
    /\ trip' = IF item["single"].enrichment_status = "enriched" /\ Answered("single")
               THEN [phase |-> "enriched", id |-> item["single"].id,
                     enrichment_confidence |-> item["single"].enrichment_confidence,
                     wiki_url |-> item["single"].wiki_url,
                     wiki_search_term |-> item["single"].wiki_search_term]
               ELSE NoTrip
    /\ UNCHANGED aside

\* line 333, 337-343: save_enriched_item raises (the database is locked,
\* unreachable, ...), enrich_single_item raises ServiceException
SingleSaveRaises ==
    /\ Quiet
    /\ pc["single"] = "save"
    /\ faults < MaxFaults
    /\ faults' = faults + 1
    /\ pc' = [pc EXCEPT !["single"] = "raised"]
    /\ UNCHANGED <<db, wiki, item, srch, run, obs>>
    /\ resp' = NoResponse
    /\ UNCHANGED trip
    /\ UNCHANGED aside

\* ------------------------------------------------------ enrich_pending_items

\* ids of the rows "WHERE enrichment_status = 'pending' ORDER BY ROWID ASC",
\* from id k on
RECURSIVE PendingFrom(_, _)
PendingFrom(rows, k) ==
    IF k > NumItems THEN <<>>
    ELSE (IF rows[k].enrichment_status = "pending" THEN <<k>> ELSE <<>>)
         \o PendingFrom(rows, k + 1)

\* EnrichmentService.get_pending_items(limit): "if limit:" appends the LIMIT
\* clause, so None and 0 both select every pending row
GetPendingItems(rows, limit) ==
    LET ids == PendingFrom(rows, 1)
        n   == IF limit # 0 THEN Min(limit, Len(ids)) ELSE Len(ids)
    IN  [i \in 1..n |-> LoadItem(ids[i], rows[ids[i]])]

\* Statistics that count the record as processed but leave a Skipped record
\* out of total_skipped
UpdateStatisticsNoSkipped(r, it) ==
    [r EXCEPT !.total_processed = @ + 1,
              !.total_enriched = IF it.enrichment_status = "enriched" THEN @ + 1 ELSE @,
              !.total_failed   = IF it.enrichment_status = "failed" THEN @ + 1 ELSE @]

\* line 226-233 / 531-538: the statistics after a successful save
UpdateStatistics(r, it) ==
    [r EXCEPT !.total_processed = @ + 1,
              !.total_enriched = IF it.enrichment_status = "enriched" THEN @ + 1 ELSE @,
              !.total_failed   = IF it.enrichment_status = "failed" THEN @ + 1 ELSE @,
              !.total_skipped  = IF it.enrichment_status = "skipped" THEN @ + 1 ELSE @]

\* line 541-542 / 553-554: "if enrichment_callback:
\* enrichment_callback(item, total_processed, len(pending_items))"; run.calls
\* is the history of the invocations (pos: the record it was invoked for)
EnrichmentCallback(r) ==
    IF r.callback
    THEN [r EXCEPT !.calls = Append(@, [pos |-> r.pos,
                                        processed_count |-> r.total_processed,
                                        total_count |-> Len(r.pending)])]
    ELSE r

\* the next iteration of "for item in batch" (and of the batch loop), or the
\* return of the summary
RunAdvance(r) ==
    IF r.pos < Len(r.pending)
    THEN /\ run' = [r EXCEPT !.pos = @ + 1]
         /\ Resume("run", BeginEnrichItem(r.pending[r.pos + 1]))
         /\ obs' = [obs EXCEPT !["run"] = [NoObs EXCEPT !.loaded_status = "pending"]]
    ELSE /\ run' = r
         /\ pc' = [pc EXCEPT !["run"] = "returned"]
         /\ UNCHANGED <<item, srch, obs>>

\* enrich_pending_items(max_items=...) or, with callback,
\* enrich_pending_items_with_enrichment_callback: line 185-217.  max_items = 0
\* stands for both None and 0.
RunStart(max_items, callback) ==
    /\ Quiet
    /\ pc["run"] = "idle"
    /\ pc["single"] = "idle"
    /\ LET pending_items == GetPendingItems(db, max_items)
       IN  IF pending_items = <<>>
           THEN /\ run' = [NoRun EXCEPT !.callback = callback]
                /\ pc' = [pc EXCEPT !["run"] = "returned"]
                /\ UNCHANGED <<item, srch, obs>>
           ELSE RunAdvance([NoRun EXCEPT !.pending = pending_items,
                                         !.callback = callback,
                                         !.saves = [i \in 1..Len(pending_items) |-> 0]])
    /\ UNCHANGED <<db, wiki, faults>>
    /\ resp' = NoResponse
    /\ trip' = NoTrip
    /\ UNCHANGED aside

\* line 218-233 (520-542): save_enriched_item succeeds, the statistics are
\* updated, the callback (if any) returns
RunSave ==
    /\ Quiet
    /\ pc["run"] = "save"
    /\ db' = [db EXCEPT ![item["run"].id] = SaveEnrichedItem(@, item["run"])]
    /\ RunAdvance(EnrichmentCallback(
           [UpdateStatistics(run, item["run"]) EXCEPT !.saves[run.pos] = @ + 1]))
    /\ UNCHANGED <<wiki, faults>>
    /\ resp' = NoResponse
    /\ UNCHANGED trip
    /\ UNCHANGED aside

\* line 520-547: save_enriched_item succeeds, the statistics are updated, the
\* callback raises; the handler marks the item failed
RunSaveCallbackRaises ==
    /\ Quiet
    /\ pc["run"] = "save"
    /\ run.callback
    /\ faults < MaxFaults
    /\ faults' = faults + 1
    /\ db' = [db EXCEPT ![item["run"].id] = SaveEnrichedItem(@, item["run"])]
    /\ run' = EnrichmentCallback(
                  [UpdateStatistics(run, item["run"]) EXCEPT !.saves[run.pos] = @ + 1])
    /\ item' = [item EXCEPT !["run"] = MarkEnrichmentFailed(@, CallbackErrorMessage, None)]
    /\ pc' = [pc EXCEPT !["run"] = "handler_save"]
    /\ UNCHANGED <<wiki, srch, obs>>
    /\ resp' = NoResponse
    /\ UNCHANGED trip
    /\ UNCHANGED aside

\* line 218, 235-238 (520, 544-547): save_enriched_item raises; the handler
\* marks the item failed
RunSaveRaises ==
    /\ Quiet
    /\ pc["run"] = "save"
    /\ faults < MaxFaults
    /\ faults' = faults + 1
    /\ run' = [run EXCEPT !.saves[run.pos] = @ + 1]
    /\ item' = [item EXCEPT !["run"] = MarkEnrichmentFailed(@, SaveErrorMessage, None)]
    /\ pc' = [pc EXCEPT !["run"] = "handler_save"]
    /\ UNCHANGED <<db, wiki, srch, obs>>
    /\ resp' = NoResponse
    /\ UNCHANGED trip
    /\ UNCHANGED aside

\* line 239-245 (548-554): the handler's save_enriched_item succeeds, the
\* counters are updated, the callback (if any) returns
RunHandlerSave ==
    /\ Quiet
    /\ pc["run"] = "handler_save"
    /\ db' = [db EXCEPT ![item["run"].id] = SaveEnrichedItem(@, item["run"])]
    /\ RunAdvance(EnrichmentCallback([run EXCEPT !.saves[run.pos] = @ + 1,
                                                 !.total_processed = @ + 1,
                                                 !.total_failed = @ + 1]))
    /\ UNCHANGED <<wiki, faults>>
    /\ resp' = NoResponse
    /\ UNCHANGED trip
    /\ UNCHANGED aside

\* line 239, 262-268: the handler's save_enriched_item raises; nothing catches
\* it inside the loop, the run raises ServiceException
RunHandlerSaveRaises ==
    /\ Quiet
    /\ pc["run"] = "handler_save"
    /\ faults < MaxFaults
    /\ faults' = faults + 1
    /\ run' = [run EXCEPT !.saves[run.pos] = @ + 1]
    /\ pc' = [pc EXCEPT !["run"] = "raised"]
    /\ UNCHANGED <<db, wiki, item, srch, obs>>
    /\ resp' = NoResponse
    /\ UNCHANGED trip
    /\ UNCHANGED aside

\* line 548-554, 571-577: the handler's save succeeds, its callback raises;
\* the run raises ServiceException
RunHandlerCallbackRaises ==
    /\ Quiet
    /\ pc["run"] = "handler_save"
    /\ run.callback
    /\ faults < MaxFaults
    /\ faults' = faults + 1
    /\ db' = [db EXCEPT ![item["run"].id] = SaveEnrichedItem(@, item["run"])]
    /\ run' = EnrichmentCallback([run EXCEPT !.saves[run.pos] = @ + 1,
                                             !.total_processed = @ + 1,
                                             !.total_failed = @ + 1])
    /\ pc' = [pc EXCEPT !["run"] = "raised"]
    /\ UNCHANGED <<wiki, item, srch, obs>>
    /\ resp' = NoResponse
    /\ UNCHANGED trip
    /\ UNCHANGED aside

\* the caller has the result (or the exception); the worker is free again
Reap(w) ==
    /\ Quiet
    /\ pc[w] \in {"returned", "raised"}
    /\ pc' = [pc EXCEPT ![w] = "idle"]
    /\ item' = [item EXCEPT ![w] = NoItem]
    /\ srch' = [srch EXCEPT ![w] = NoSearch]
    /\ obs' = [obs EXCEPT ![w] = NoObs]
    /\ run' = IF w = "run" THEN NoRun ELSE run
    /\ UNCHANGED <<db, wiki, faults>>
    /\ resp' = NoResponse
    /\ UNCHANGED trip
    /\ UNCHANGED aside

\* --------------------------------------------------------------------- reset

\* a worker is between loading a row and the end of its call
Holds(w, id) == pc[w] \notin {"idle"} /\ item[w].id = id

\* an item_id that no row of the store has
UnknownId == NumItems + 1

\* the item_id path parameter of a request
RequestIds == Ids \cup {UnknownId}

\* str(e) of the ServiceException a reset raises
ResetErrorMessage(route) ==
    IF route = "reset"
    THEN "EnrichmentService service error during reset_enrichment_status: Failed to reset enrichment status"
    ELSE "EnrichmentService service error during reset_single_item_enrichment: Failed to reset enrichment status for item"

\* the two except clauses of a route: what an exception raised inside its
\* try block becomes.  exc is [type, status_code, detail]; HTTPException is
\* not a ServiceException and is an Exception.
RouteExcept(exc) ==
    IF exc.type = "ServiceException"
    THEN [status_code |-> 500, detail |-> exc.detail]
    ELSE [status_code |-> 500, detail |-> "Internal server error"]

\* cursor.rowcount of the UPDATE that only counts the rows whose columns change
RowCountChanged(rows) ==
    Cardinality({id \in DOMAIN rows : rows[id] # ResetRow(rows[id])})

\* cursor.rowcount of "UPDATE library_items SET ..." without WHERE: every row
\* of the table matches
RowCountAll(rows) == Cardinality(DOMAIN rows)

\* cursor.rowcount of "UPDATE library_items SET ... WHERE id = ?"
RowCountById(rows, item_id) ==
    Cardinality({id \in DOMAIN rows : id = item_id})

\* the worker's obs after a reset that rewrote the rows in ids
ResetSeen(ids) ==
    [w \in Workers |->
        IF \E id \in ids : Holds(w, id)
        THEN [obs[w] EXCEPT !.reset_since = TRUE] ELSE obs[w]]

\* route reset_enrichment, EnrichmentService.reset_enrichment_status()
ResetEnrichmentStatus ==
    /\ Quiet
    /\ db' = [id \in Ids |-> ResetRow(db[id])]
    /\ resp' = [NoResponse EXCEPT !.route = "reset",
                                  !.status_code = 200,
                                  !.items_reset = RowCountAll(db)]
    /\ obs' = ResetSeen(Ids)
    /\ UNCHANGED <<wiki, faults, pc, item, srch, run>>
    /\ UNCHANGED trip
    /\ UNCHANGED aside

\* route reset_item_enrichment: the response for the affected_rows the
\* service returned; the HTTPException(404) is raised inside the try block
ResetItemResponse(affected_rows) ==
    IF affected_rows = 0
    THEN RouteExcept([type |-> "HTTPException", status_code |-> 404,
                      detail |-> "Item not found"])
    ELSE [status_code |-> 200, detail |-> None]

\* route reset_item_enrichment(item_id),
\* EnrichmentService.reset_single_item_enrichment(item_id)
ResetSingleItemEnrichment(item_id) ==
    /\ Quiet
    /\ LET affected_rows == RowCountById(db, item_id)
           response == ResetItemResponse(affected_rows)
       IN  resp' = [NoResponse EXCEPT
                      !.route = "reset_item",
                      !.item_id = item_id,
                      !.status_code = response.status_code,
                      !.detail = response.detail,
                      !.items_reset = IF response.status_code = 200
                                      THEN affected_rows ELSE 0]
    /\ db' = [id \in Ids |-> IF id = item_id THEN ResetRow(db[id]) ELSE db[id]]
    /\ obs' = ResetSeen({item_id})
    /\ UNCHANGED <<wiki, faults, pc, item, srch, run>>
    /\ trip' = IF trip.phase = "enriched" /\ trip.id = item_id
               THEN [trip EXCEPT !.phase = "reset"] ELSE trip
    /\ UNCHANGED aside

ResetRoutes == {"reset", "reset_item"}

\* either reset request when execute_update raises (database locked or
\* unreachable): the service raises ServiceException, the route answers 500
\* (whatever the item_id of the request, which is not recorded here)
ResetRaises(route) ==
    /\ Quiet
    /\ faults < MaxFaults
    /\ faults' = faults + 1
    /\ LET response == RouteExcept([type |-> "ServiceException", status_code |-> 0,
                                    detail |-> ResetErrorMessage(route)])
       IN  resp' = [NoResponse EXCEPT !.route = route,
                                      !.raised = TRUE,
                                      !.status_code = response.status_code,
                                      !.detail = response.detail]
    /\ UNCHANGED <<db, wiki, pc, item, srch, run, obs>>
    /\ UNCHANGED trip
    /\ UNCHANGED aside

\* ---------------------------------------------------------------------- next

Next ==
    \/ \E id \in Ids : SingleStart(id)
    \/ \E w \in Workers : SearchReturns(w)
    \/ \E w \in Workers : SearchRaises(w)
    \/ \E w \in Workers : FetchReturns(w)
    \/ \E w \in Workers : FetchRaises(w)
    \/ SingleSave
    \/ SingleSaveRaises
    \/ \E max_items \in 0..NumItems, callback \in BOOLEAN : RunStart(max_items, callback)
    \/ RunSave
    \/ RunSaveCallbackRaises
    \/ RunSaveRaises
    \/ RunHandlerSave
    \/ RunHandlerSaveRaises
    \/ RunHandlerCallbackRaises
    \/ \E w \in Workers : Reap(w)
    \/ ResetEnrichmentStatus
    \/ \E item_id \in RequestIds : ResetSingleItemEnrichment(item_id)
    \/ \E route \in ResetRoutes : ResetRaises(route)

Spec == Init /\ [][Next]_vars

\* ------------------------------------------------------------------- claims

\* the row a worker's item was loaded from
RowOf(w) == db[item[w].id]

\* the worker's attempt started from a row persisted as Pending
OnPending(w) == obs[w].loaded_status = "pending"

\* the worker's enrich_item has returned and its result is about to be saved
AttemptEnded(w) == pc[w] = "save"

\* C1: an attempt on a record whose persisted status is not Pending issues no
\* search or fetch call, and when it has finished (no reset in between) the
\* persisted status is the one the record had when the attempt started.
C1_NonPendingIsNoOp ==
    \A w \in Workers :
        obs[w].loaded_status \in {"enriched", "failed", "skipped"} =>
            /\ ~obs[w].called
            /\ (pc[w] = "returned" /\ ~obs[w].reset_since) =>
                   RowOf(w).enrichment_status = obs[w].loaded_status

\* C2: every step that changes the persisted status of a record either
\* starts from Pending or ends in Pending; a status that is Enriched, Failed
\* or Skipped is never rewritten to another one of the three.
C2_StatusTransitions ==
    [][\A id \in Ids :
          db'[id].enrichment_status # db[id].enrichment_status =>
             \/ db[id].enrichment_status = "pending"
             \/ db'[id].enrichment_status = "pending"]_vars

\* C3: in every reachable state of the store, a row whose status is Pending
\* has confidence 0 and no error, wiki_url, wiki_summary, wiki_image_url or
\* wiki_search_term.
C3_PendingIsClean ==
    \A id \in Ids :
        db[id].enrichment_status = "pending" =>
            /\ db[id].enrichment_confidence = 0
            /\ db[id].enrichment_error = None
            /\ db[id].wiki_url = None
            /\ db[id].wiki_summary = None
            /\ db[id].wiki_image_url = None
            /\ db[id].wiki_search_term = None

\* a call saved its record as Enriched, with url, summary and search term,
\* and a reset then made the row Pending again
C3_Witness ==
    \E w \in Workers :
        /\ pc[w] = "returned"
        /\ item[w].id \in Ids
        /\ item[w].enrichment_status = "enriched"
        /\ Truthy(item[w].wiki_url)
        /\ obs[w].reset_since
        /\ RowOf(w).enrichment_status = "pending"

\* C4: at the end of an attempt on a Pending record, if a candidate raised
\* best_score and best_score >= the threshold, the item is Enriched with
\* confidence best_score and the url, summary and search term of the
\* candidate that set best_score; otherwise it is Skipped with the error
\* "No suitable wiki page found" and the top search title as search term.
C4_AttemptOutcome ==
    \A w \in Workers :
        (AttemptEnded(w) /\ OnPending(w)) =>
            IF obs[w].top # NoResult /\ srch[w].best_score >= ConfidenceThreshold
            THEN /\ item[w].enrichment_status = "enriched"
                 /\ item[w].enrichment_confidence = srch[w].best_score
                 /\ item[w].wiki_url = obs[w].top.url
                 /\ item[w].wiki_summary = obs[w].top.summary
                 /\ item[w].wiki_search_term = obs[w].top.search_term
            ELSE /\ item[w].enrichment_status = "skipped"
                 /\ item[w].enrichment_error = "No suitable wiki page found"
                 /\ item[w].wiki_search_term = TopSearchTitle(item[w].id)

\* C5: when the best candidate of an attempt is a page without images and
\* its score is >= the threshold, the item is Enriched with that candidate's
\* url, summary and search term, and its wiki_image_url is empty.
C5_ImagelessBestCandidate ==
    \A w \in Workers :
        ( /\ AttemptEnded(w)
          /\ OnPending(w)
          /\ obs[w].top # NoResult
          /\ obs[w].top.image_url = None
          /\ obs[w].top.confidence >= ConfidenceThreshold ) =>
            /\ item[w].enrichment_status = "enriched"
            /\ item[w].wiki_url = obs[w].top.url
            /\ item[w].wiki_summary = obs[w].top.summary
            /\ item[w].wiki_search_term = obs[w].top.search_term
            /\ item[w].wiki_image_url = None

\* C6: an attempt in which a search request failed still runs the query
\* loop to its end (the last query, or the early exit on a score above 0.8),
\* and its item ends Enriched or Skipped as the result of the loop says,
\* never Failed.
C6_SearchFailureContinues ==
    \A w \in Workers :
        (AttemptEnded(w) /\ obs[w].search_failed) =>
            /\ \/ srch[w].qi = Len(srch[w].queries)
               \/ srch[w].best_score > EarlyExit
            /\ item[w].enrichment_status =
                  IF SearchForItemResult(srch[w]) # NoResult
                  THEN "enriched" ELSE "skipped"

\* the first query of an attempt failed and a later query's candidate made
\* the item Enriched
C6_Witness ==
    \E w \in Workers :
        /\ AttemptEnded(w)
        /\ obs[w].search_failed
        /\ item[w].enrichment_status = "enriched"
        /\ item[w].wiki_search_term # srch[w].queries[1]
        /\ item[w].wiki_search_term = srch[w].queries[srch[w].qi]

\* C7: the fetch of a page that does not exist skips that candidate only:
\* when later candidates of the same query are waiting, the attempt goes on
\* to fetch the next candidate of that query.
C7_MissingPageIsSkipped ==
    [][\A w \in Workers :
          ( /\ pc[w] = "fetch"
            /\ Candidate(w).title \in MissingPages
            /\ srch[w].ci < Len(srch[w].results)
            /\ srch'[w] # srch[w] ) =>
              /\ pc'[w] = "fetch"
              /\ srch'[w].qi = srch[w].qi
              /\ srch'[w].ci = srch[w].ci + 1]_vars

\* C8: a call on a Pending record that has finished (returned or raised, no
\* reset in between) does not leave the row Pending, and a row it left Failed
\* carries an error and the top search title as search term.
C8_FailurePersisted ==
    \A w \in Workers :
        ( /\ pc[w] \in {"returned", "raised"}
          /\ item[w].id \in Ids
          /\ OnPending(w)
          /\ ~obs[w].reset_since ) =>
            /\ RowOf(w).enrichment_status # "pending"
            /\ RowOf(w).enrichment_status = "failed" =>
                  /\ Truthy(RowOf(w).enrichment_error)
                  /\ RowOf(w).wiki_search_term = TopSearchTitle(item[w].id)

\* C9: a batch run never raises.
C9_RunNeverRaises == pc["run"] # "raised"

\* C10: save_enriched_item is invoked at most once for each record of a run,
\* and exactly once for each record the run has passed.
C10_OneSavePerRecord ==
    \A i \in DOMAIN run.saves :
        /\ run.saves[i] <= 1
        /\ (i < run.pos \/ pc["run"] = "returned") => run.saves[i] = 1

\* the attempt of the worker is on the record titled "Rose" of content type
\* BBC Television, and the search loop fetched and scored the page
\* "Rose (TV story)" (TARDIS wiki url, "Doctor Who" in its summary, two
\* categories) as the candidate that set best_score
RoseScenario(w) ==
    /\ AttemptEnded(w)
    /\ OnPending(w)
    /\ Catalog(item[w].id).title = "Rose"
    /\ Catalog(item[w].id).content_type = "BBC Television"
    /\ obs[w].top.title = "Rose (TV story)"
    /\ Len(PageContent("Rose (TV story)").categories) = 2

CountByStatus(rows, status) ==
    Cardinality({id \in DOMAIN rows : rows[id].enrichment_status = status})

\* the last step served a bulk reset, which succeeded
BulkResetDone == resp.route = "reset" /\ ~resp.raised

\* C12: a bulk reset returns the number of records in the store whatever
\* their status was, and leaves every record Pending with confidence 0 and
\* no error, url, summary, image url or search term, so that the count of
\* Pending records equals the returned count.
C12_BulkResetCountsAll ==
    BulkResetDone =>
        /\ resp.status_code = 200
        /\ resp.items_reset = NumItems
        /\ \A id \in Ids : db[id] = ImportedRow
        /\ CountByStatus(db, "pending") = resp.items_reset

\* a bulk reset was served on a store in which a call on a Pending record
\* had saved it as Enriched
C12_Witness ==
    /\ BulkResetDone
    /\ pc["single"] = "returned"
    /\ item["single"].enrichment_status = "enriched"
    /\ obs["single"].loaded_status = "pending"
    /\ obs["single"].reset_since
    /\ faults = 0

\* C13: a single-item reset whose item_id is not in the store is answered
\* 404 (not found), not with an internal error.
C13_UnknownIdIsNotFound ==
    (resp.route = "reset_item" /\ resp.item_id \notin Ids /\ ~resp.raised) =>
        resp.status_code = 404

\* the second enrich_single_item(id) of a round trip has ended, every
\* request of it having been answered as in the first
RoundTripEnded ==
    /\ trip.phase = "again"
    /\ AttemptEnded("single")
    /\ Answered("single")

TitleChoices == {"", "Rose", "Rose (TV story)", "The Ark"}

\* optional titles: also None
OptionalTitleChoices == TitleChoices \cup {None}

\* content types: none, and one for each kind of wiki suffix used here
ContentTypeChoices ==
    {None, "BBC Television", "Big Finish Productions", "BBC Books", "Documentary"}

QueryRecords ==
    [title : TitleChoices, story_title : OptionalTitleChoices,
     serial_title : OptionalTitleChoices, content_type : ContentTypeChoices]

InitQueries ==
    /\ ServiceStart("plain")
    /\ gather = NoGather
    /\ call \in [fn : {"_generate_search_queries"}, rec : QueryRecords,
                 returned : {FALSE}, queries : {<<>>}]

\* the call returns queries[:12]
GenerateSearchQueriesReturns ==
    /\ call.fn = "_generate_search_queries"
    /\ ~call.returned
    /\ call' = [call EXCEPT !.returned = TRUE,
                            !.queries = GenerateSearchQueries(call.rec)]
    /\ UNCHANGED <<service, gather>>

SpecQueries == InitQueries /\ [][GenerateSearchQueriesReturns]_vars

\* the generator has returned
QueriesReturned == call.fn = "_generate_search_queries" /\ call.returned

\* C15: for any record the generator returns at most 12 queries, each of
\* them a non-empty string, no two of them the same string.
C15_QueriesBoundedDistinct ==
    QueriesReturned =>
        /\ Len(call.queries) <= 12
        /\ \A i \in 1..Len(call.queries) : call.queries[i] # ""
        /\ \A i, j \in 1..Len(call.queries) :
              i # j => call.queries[i] # call.queries[j]

\* the record has a primary title and no story or serial title
OnlyPrimaryTitle(rec) ==
    Truthy(rec.title) /\ ~Truthy(rec.story_title) /\ ~Truthy(rec.serial_title)

\* C16: for a record with a primary title and no alternate titles, the
\* generator's result ends with the broad quoted query built from the title
\* and contains the bare title before it.
C16_BareTitleThenBroadQuery ==
    (QueriesReturned /\ OnlyPrimaryTitle(call.rec)) =>
        LET n == Len(call.queries)
        IN  /\ n >= 2
            /\ call.queries[n] = "\"" \o call.rec.title \o "\" Doctor Who"
            /\ \E i \in 1..(n - 1) : call.queries[i] = call.rec.title

\* the generator has returned for a record with only a primary title whose
\* content type has a suffix of its own: ten queries
C16_Witness ==
    /\ QueriesReturned
    /\ OnlyPrimaryTitle(call.rec)
    /\ call.rec.content_type = "Documentary"
    /\ Len(call.queries) = 10

\* ---------------------------------------------------------------- the scorer
\* _calculate_confidence_score is a pure function of the item's title and of
\* the page_content dict.  SpecScore draws both and calls the scorer.

\* item titles: one that a page title contains, one that shares a word with
\* a page title, one that is empty
ScoreTitles == {"Rose", "The Ark", ""}

ScorePageTitles == {"Rose (TV story)", "Ark Royal", "Henrik's", ""}

ScoreUrls == {PageUrl("Rose"), "https://example.org/wiki/Rose"}

ScoreSummaries == {"", "The Doctor lands in London.", "A department store."}

ScoreContents == {"", "Built on Gallifrey.", "Plain text."}

ScoreCategories == {<<>>, <<"Stories set in London">>}

ScorePages ==
    [title : ScorePageTitles, url : ScoreUrls, content : ScoreContents,
     summary : ScoreSummaries, categories : ScoreCategories,
     images : {<<>>}]

InitScore ==
    /\ ServiceStart("plain")
    /\ gather = NoGather
    /\ call \in [fn : {"_calculate_confidence_score"}, title : ScoreTitles,
                 page_content : ScorePages, returned : {FALSE}, score : {0}]

\* the call returns min(score, 1.0)
CalculateConfidenceScoreReturns ==
    /\ call.fn = "_calculate_confidence_score"
    /\ ~call.returned
    /\ call' = [call EXCEPT
                   !.returned = TRUE,
                   !.score = CalculateConfidenceScore(call.title, call.page_content)]
    /\ UNCHANGED <<service, gather>>

SpecScore == InitScore /\ [][CalculateConfidenceScoreReturns]_vars

\* The evidence signals of an input, as the claims name them:
\*   containment  one of the two lower-cased titles contains the other
\*   word         a word (longer than 2) of the item title is in the page title
\*   brand        "tardis" is in the url
\*   vocabulary   a Doctor Who term is in the content or the summary
\*   category     the page has a category
\*   text         the page has a summary or content
SignalsOf(title, page_content) ==
    LET it == Lower(title)
        pt == Lower(page_content.title)
        ws == Split(it)
        both == it # "" /\ pt # ""
    IN  [containment |-> both /\ (Contains(it, pt) \/ Contains(pt, it)),
         word        |-> both /\ \E i \in 1..Len(ws) :
                                    Len(ws[i]) > 2 /\ Contains(ws[i], pt),
         brand       |-> Contains("tardis", Lower(page_content.url)),
         vocabulary  |-> \E term \in DoctorWhoTerms :
                            Contains(term, Lower(page_content.content \o " "
                                                  \o page_content.summary)),
         category    |-> page_content.categories # <<>>,
         text        |-> page_content.summary # "" \/ page_content.content # ""]

AllSignals ==
    [containment : BOOLEAN, word : BOOLEAN, brand : BOOLEAN,
     vocabulary : BOOLEAN, category : BOOLEAN, text : BOOLEAN]

\* T: 0.6 on containment, otherwise 0.4 on a word match, otherwise 0
TitleScore(sig) ==
    IF sig.containment THEN 6000 ELSE IF sig.word THEN 4000 ELSE 0

\* u + w when the signal is true, u otherwise (a double addition)
Plus(u, signal, w) == IF signal THEN FAdd(u, w) ELSE u

\* min(1.0, T + 0.3*brand + 0.3*vocabulary + 0.2*category + 0.1*text), the sum
\* taken from left to right in double arithmetic
ScoreFormula(sig) ==
    LET a == Plus(TitleScore(sig), sig.brand, 3000)
        b == Plus(a, sig.vocabulary, 3000)
        c == Plus(b, sig.category, 2000)
        d == Plus(c, sig.text, 1000)
    IN  IF d < 10000 THEN d ELSE 10000

\* every signal true in sig is true in more, and more's title signal is at
\* least as strong
AtLeast(more, sig) ==
    /\ TitleScore(more) >= TitleScore(sig)
    /\ sig.brand => more.brand
    /\ sig.vocabulary => more.vocabulary
    /\ sig.category => more.category
    /\ sig.text => more.text

\* the scorer has returned
ScoreReturned == call.fn = "_calculate_confidence_score" /\ call.returned

\* C17: the score equals min(1.0, T + 0.3*brand + 0.3*vocabulary +
\* 0.2*category + 0.1*text) with T 0.6 on containment, else 0.4 on a word
\* match, else 0; it lies in [0, 1]; and no combination of signals with one
\* or more further signals true has a smaller score.
C17_ScoreFormula ==
    ScoreReturned =>
        LET sig == SignalsOf(call.title, call.page_content)
        IN  /\ call.score = ScoreFormula(sig)
            /\ call.score >= 0
            /\ call.score <= 10000
            /\ \A more \in AllSignals :
                  AtLeast(more, sig) => ScoreFormula(more) >= call.score

\* the scorer has returned for an input with containment and a word match
\* at once and every other signal true: the sum 0.6+0.3+0.3+0.2+0.1 is capped
C17_Witness ==
    /\ ScoreReturned
    /\ LET sig == SignalsOf(call.title, call.page_content)
       IN  /\ sig.containment /\ sig.word
           /\ sig.brand /\ sig.vocabulary /\ sig.category /\ sig.text
    /\ call.score = 10000

\* ------------------------------------------------------------ the normalizer
\* _clean_text is a pure function of a string.  SpecClean draws a text, calls
\* the normalizer on it, and calls it again on the result.

\* Number of pieces a drawn text is put together from.
MaxPieces == 5

\* the pieces: a letter, whitespace, a reference marker, a template, and an
\* opening bracket that nothing closes
TextPieces == {"a", " ", "\t", "[1]", "{{t}}", "["}

RECURSIVE Join(_)
Join(pieces) ==
    IF pieces = <<>> THEN "" ELSE pieces[1] \o Join(Tail(pieces))

Texts == {Join(p) : p \in UNION {[1..n -> TextPieces] : n \in 0..MaxPieces}}

\* characters \s matches and strip() removes
IsSpace(c) == c \in {" ", "\t", "\n", "\r"}

\* re.sub(r"\s+", " ", text), from position i on; prev tells whether the
\* character before i was whitespace
RECURSIVE CollapseSpaces(_, _, _)
CollapseSpaces(text, i, prev) ==
    IF i > Len(text) THEN ""
    ELSE LET c == SubSeq(text, i, i)
         IN  IF IsSpace(c)
             THEN (IF prev THEN "" ELSE " ") \o CollapseSpaces(text, i + 1, TRUE)
             ELSE c \o CollapseSpaces(text, i + 1, FALSE)

\* text has sub at position i
HasAt(text, i, sub) ==
    i + Len(sub) - 1 <= Len(text) /\ SubSeq(text, i, i + Len(sub) - 1) = sub

\* the first position >= i where text has sub, 0 when there is none
RECURSIVE Find(_, _, _)
Find(text, i, sub) ==
    IF i + Len(sub) - 1 > Len(text) THEN 0
    ELSE IF HasAt(text, i, sub) THEN i
    ELSE Find(text, i + 1, sub)

\* re.sub(open .*? close, "", text) from position i on: the leftmost opening
\* with the nearest closing after it is removed, then the scan goes on after
\* the closing (the text holds no newline by then)
RECURSIVE RemoveSpans(_, _, _, _)
RemoveSpans(text, i, open, close) ==
    IF i > Len(text) THEN ""
    ELSE LET j == IF HasAt(text, i, open)
                  THEN Find(text, i + Len(open), close) ELSE 0
         IN  IF j > 0
             THEN RemoveSpans(text, j + Len(close), open, close)
             ELSE SubSeq(text, i, i) \o RemoveSpans(text, i + 1, open, close)

\* str.strip()
RECURSIVE Strip(_)
Strip(text) ==
    IF text = "" THEN ""
    ELSE IF IsSpace(SubSeq(text, 1, 1)) THEN Strip(SubSeq(text, 2, Len(text)))
    ELSE IF IsSpace(SubSeq(text, Len(text), Len(text)))
         THEN Strip(SubSeq(text, 1, Len(text) - 1))
    ELSE text

\* TardisWikiService._clean_text
CleanText(text) ==
    IF text = "" THEN ""
    ELSE LET spaced     == CollapseSpaces(text, 1, FALSE)
             unreferenced == RemoveSpans(spaced, 1, "[", "]")
             unmarked   == RemoveSpans(unreferenced, 1, "{{", "}}")
         IN  Strip(unmarked)

InitClean ==
    /\ ServiceStart("plain")
    /\ gather = NoGather
    /\ call \in [fn : {"_clean_text"}, text : Texts, calls : {0},
                 once : {""}, twice : {""}]

\* _clean_text(text) returns
CleanTextReturns ==
    /\ call.fn = "_clean_text"
    /\ call.calls = 0
    /\ call' = [call EXCEPT !.calls = 1, !.once = CleanText(call.text)]
    /\ UNCHANGED <<service, gather>>

\* _clean_text(_clean_text(text)) returns
CleanTextAgainReturns ==
    /\ call.fn = "_clean_text"
    /\ call.calls = 1
    /\ call' = [call EXCEPT !.calls = 2, !.twice = CleanText(call.once)]
    /\ UNCHANGED <<service, gather>>

NextClean == CleanTextReturns \/ CleanTextAgainReturns

SpecClean == InitClean /\ [][NextClean]_vars

\* C18: the normalizer applied to its own result returns that result.
C18_CleanTextIdempotent ==
    (call.fn = "_clean_text" /\ call.calls = 2) => call.twice = call.once

\* --------------------------------------------------------------- enrich_items
\* TardisWikiService.enrich_items(items): one task per item that can be
\* enriched, all of them started by asyncio.gather, each of them
\*     async with semaphore:
\*         result = await self.enrich_item(item)
\*         await asyncio.sleep(self.config.request_delay)
\* SpecItems draws the configured EnrichmentSettings.max_concurrent and runs
\* the tasks under every scheduling.

\* Number of items passed to enrich_items (all of them Pending).
NumTasks == 3

\* Largest value EnrichmentSettings.max_concurrent is configured with.
MaxConfigured == 6

\* the fallback of "self.config.max_concurrent if hasattr(...) else 5"
DefaultConcurrent == 5

Tasks == 1..NumTasks

\* the fields of WikiSettings, the config object TardisWikiService is built
\* with (container.py: config=config.provided.wiki)
WikiSettingsFields ==
    {"base_url", "api_url", "user_agent", "timeout", "request_delay",
     "max_retries", "confidence_threshold"}

\* asyncio.Semaphore(self.config.max_concurrent
\*                   if hasattr(self.config, "max_concurrent") else 5);
\* wiki_max_concurrent is what self.config.max_concurrent would hold
SemaphoreValue(wiki_max_concurrent) ==
    IF "max_concurrent" \in WikiSettingsFields
    THEN wiki_max_concurrent ELSE DefaultConcurrent

\* Largest number of search and fetch requests one task issues.
MaxRequests == 2

\* gather.tasks[t]:
\*   "start"    the task waits to enter "async with semaphore"
\*   "enrich"   it holds the semaphore and is in enrich_item, about to call
\*              search_for_item
\*   "request"  it is in the query loop of _search_for_item_internal
\*   "sleep"    it holds the semaphore and awaits asyncio.sleep(request_delay)
\*   "done"     it has left the semaphore and returned its item
\* gather.session is self._session: "none" (None), "open" (an AsyncClient) or
\* "closed" (an AsyncClient after aclose()); a service whose session context
\* was entered and exited before the call starts with "closed".
\* gather.entered[t]: the task is inside its own "async with self".
\* gather.requests[t]: the requests the task has issued in its query loop.
\* gather.on_closed: a request was issued on a closed client (history).
InitItems ==
    /\ ServiceStart("plain")
    /\ call = NoCall
    /\ gather \in [state : {"running"},
                   max_concurrent : 1..MaxConfigured,
                   semaphore : {SemaphoreValue(0)},
                   tasks : {[t \in Tasks |-> "start"]},
                   status : {[t \in Tasks |-> "pending"]},
                   session : {"none", "closed"},
                   entered : {[t \in Tasks |-> FALSE]},
                   requests : {[t \in Tasks |-> 0]},
                   on_closed : {FALSE}]

\* semaphore.acquire() returns: the value was positive
TaskAcquires(t) ==
    /\ gather.state = "running"
    /\ gather.tasks[t] = "start"
    /\ gather.semaphore > 0
    /\ gather' = [gather EXCEPT !.semaphore = @ - 1, !.tasks[t] = "enrich"]
    /\ UNCHANGED <<service, call>>

\* search_for_item, line 50-54: "if not self._session: async with self:"
\* enters the context (__aenter__ assigns a new AsyncClient); with a session
\* object already there, open or closed, the search runs on that one
TaskSearchForItem(t) ==
    /\ gather.state = "running"
    /\ gather.tasks[t] = "enrich"
    /\ gather' = IF gather.session = "none"
                 THEN [gather EXCEPT !.tasks[t] = "request", !.session = "open",
                                     !.entered[t] = TRUE]
                 ELSE [gather EXCEPT !.tasks[t] = "request"]
    /\ UNCHANGED <<service, call>>

\* _search_wiki or _get_page_content issues self._session.get(...); on a
\* closed client the call raises and the query loop goes on
TaskRequest(t) ==
    /\ gather.state = "running"
    /\ gather.tasks[t] = "request"
    /\ gather.requests[t] < MaxRequests
    /\ gather' = [gather EXCEPT !.requests[t] = @ + 1,
                                !.on_closed = @ \/ gather.session = "closed"]
    /\ UNCHANGED <<service, call>>

\* the query loop ends; a task that entered the context leaves it
\* (__aexit__: await self._session.aclose(), self._session keeps the closed
\* client); await self.enrich_item(item) returns the item, marked Enriched,
\* Skipped or Failed (enrich_item catches every exception)
TaskEnrichItemReturns(t, status) ==
    /\ gather.state = "running"
    /\ gather.tasks[t] = "request"
    /\ gather' = [gather EXCEPT !.tasks[t] = "sleep", !.status[t] = status,
                                !.entered[t] = FALSE, !.requests[t] = 0,
                                !.session = IF gather.entered[t] THEN "closed" ELSE @]
    /\ UNCHANGED <<service, call>>

\* await asyncio.sleep(request_delay) returns; the task leaves the semaphore
TaskSleepReturns(t) ==
    /\ gather.state = "running"
    /\ gather.tasks[t] = "sleep"
    /\ gather' = [gather EXCEPT !.semaphore = @ + 1, !.tasks[t] = "done"]
    /\ UNCHANGED <<service, call>>

\* asyncio.gather returns: every task is done
GatherReturns ==
    /\ gather.state = "running"
    /\ \A t \in Tasks : gather.tasks[t] = "done"
    /\ gather' = [gather EXCEPT !.state = "returned"]
    /\ UNCHANGED <<service, call>>

NextItems ==
    \/ \E t \in Tasks : TaskAcquires(t)
    \/ \E t \in Tasks : TaskSearchForItem(t)
    \/ \E t \in Tasks : TaskRequest(t)
    \/ \E t \in Tasks, status \in {"enriched", "skipped", "failed"} :
          TaskEnrichItemReturns(t, status)
    \/ \E t \in Tasks : TaskSleepReturns(t)
    \/ GatherReturns

SpecItems == InitItems /\ [][NextItems]_vars

\* the tasks inside their enrichment section (enrich_item and the delay)
InSection ==
    {t \in Tasks : gather.tasks[t] \in {"enrich", "request", "sleep"}}

\* C19: at no moment are more than the configured max_concurrent records
\* inside their enrichment section.
C19_AtMostMaxConcurrent ==
    gather.state = "running" =>
        Cardinality(InSection) <= gather.max_concurrent

\* C20: a batch run starts the requests of a further record only out of the
\* request_delay wait that follows the record before it.
C20_DelayBetweenRecords ==
    [][(run.pos >= 1 /\ run'.pos = run.pos + 1) => pc["run"] = "sleep"]_vars

\* C21: a run called with max_items admits at most max_items records, for
\* every max_items from 0 on.
C21_AtMostMaxItems ==
    [][\A max_items \in 0..NumItems, callback \in BOOLEAN :
          RunStart(max_items, callback) => Len(run'.pending) <= max_items]_vars

\* the run that was given a callback has ended
CallbackRunEnded == run.callback /\ pc["run"] \in {"returned", "raised"}

\* C22: when a run with a callback has ended, the callback has been invoked
\* exactly once for each admitted record, in order, with processed_count
\* 1, 2, ..., N and total_count N, N being the number of admitted records.
C22_CallbackOncePerRecord ==
    CallbackRunEnded =>
        run.calls = [i \in 1..Len(run.pending) |->
                        [pos |-> i, processed_count |-> i,
                         total_count |-> Len(run.pending)]]

\* C23: at the end of an attempt in which a candidate was scored and the best
\* score stayed below the threshold, the item is Skipped and its confidence
\* is that best score.
C23_LowConfidenceRecorded ==
    \A w \in Workers :
        ( /\ AttemptEnded(w)
          /\ OnPending(w)
          /\ obs[w].top # NoResult
          /\ srch[w].best_score < ConfidenceThreshold ) =>
            /\ item[w].enrichment_status = "skipped"
            /\ item[w].enrichment_confidence = srch[w].best_score

\* C24: once a candidate of the attempt has scored above 0.8, the worker
\* issues no further search or fetch request in that attempt.
C24_EarlyExit ==
    \A w \in Workers :
        obs[w].top.confidence > EarlyExit => pc[w] \notin {"search", "fetch"}

\* C25: when the search loop has ended, the tracked best result is the first
\* candidate, in evaluation order, that reached the highest score of the
\* attempt.
C25_BestIsFirstMaximum ==
    \A w \in Workers :
        (AttemptEnded(w) /\ OnPending(w) /\ obs[w].top # NoResult) =>
            /\ srch[w].best_result.title = obs[w].top.title
            /\ srch[w].best_result.url = obs[w].top.url
            /\ srch[w].best_result.confidence = obs[w].top.confidence
            /\ srch[w].best_result.search_term = obs[w].top.search_term

\* C26: every row persisted as Enriched has a confidence of at least the
\* threshold, a wiki_url and no error.
C26_EnrichedRowIsSound ==
    \A id \in Ids :
        db[id].enrichment_status = "enriched" =>
            /\ db[id].enrichment_confidence >= ConfidenceThreshold
            /\ Truthy(db[id].wiki_url)
            /\ db[id].enrichment_error = None

\* C27: no task of enrich_items issues a search or fetch request on a client
\* that has been closed.
C27_NoRequestOnClosedSession ==
    gather.state \in {"running", "returned"} => ~gather.on_closed

\* the callback raised for the record the run is at: it was invoked for that
\* record and the run is in the exception handler
CallbackRaised ==
    /\ pc["run"] = "handler_save"
    /\ run.calls # <<>>
    /\ run.calls[Len(run.calls)].pos = run.pos

\* C28: when the callback has raised for a record, the step the run takes
\* next leaves the record's persisted row as it is and does not count the
\* record a second time.
C28_CallbackFailureIsHarmless ==
    [][(CallbackRaised /\ pc'["run"] # "handler_save") =>
          /\ db'[item["run"].id] = db[item["run"].id]
          /\ run'.total_processed = run.total_processed]_vars

\* a call of enrich_pending_items (no callback) has returned its summary
PlainRunReturned == pc["run"] = "returned" /\ ~run.callback

\* C29: the summary of a returned enrich_pending_items has
\* processed = enriched + failed + skipped, and processed is the number of
\* records admitted to the run.
C29_SummaryAddsUp ==
    PlainRunReturned =>
        /\ run.total_processed = run.total_enriched + run.total_failed + run.total_skipped
        /\ run.total_processed = Len(run.pending)

\* a returned run that admitted every record, one of them counted Enriched
\* and another one counted Failed (by the handler, its first save raised)
C29_Witness ==
    /\ PlainRunReturned
    /\ Len(run.pending) = NumItems
    /\ run.total_enriched >= 1
    /\ run.total_failed >= 1

\* C30: every title of get_search_titles appears in at least one of the
\* queries the generator returns for the record.
C30_EveryTitleSearched ==
    QueriesReturned =>
        LET titles == GetSearchTitles(call.rec)
        IN  \A i \in 1..Len(titles) :
                \E j \in 1..Len(call.queries) : Contains(titles[i], call.queries[j])

====
